---- MODULE Spec2Model ----
(***************************************************************************)
(* A model of src/BA/src/visualization/plots.py: the EDA report generator. *)
(*                                                                         *)
(* The program is single threaded.  Each view function is one operation:   *)
(* it reads the caller's dataset, may write text tables to the reports     *)
(* directory and one image to the figures directory, and logs.  A view is  *)
(* modelled as a transformer of the "world" record (the two directories,   *)
(* the log, the number of open figures, and whether an exception is        *)
(* propagating); the actions apply the transformers to the variables.      *)
(*                                                                         *)
(* Cells of a table are 0- or 1-tuples: <<>> is the undefined value        *)
(* (NaN / None), <<v>> a defined value.  Statistics are fixed-point        *)
(* numbers with Scale units per 1.                                         *)
(***************************************************************************)
EXTENDS Integers, Sequences, FiniteSets, TLC

VARIABLES
    df,       \* the caller's dataset: [cols, numeric, rows]
    config,   \* the configuration module: the two feature lists
    call,     \* the call under way: function name and arguments
    pc,       \* "ready" before the call, "returned" or "raised" after it
    reports,  \* config.REPORTS_DIR: file name -> [title, table]
    figures,  \* config.FIGURES_DIR: file name -> what the image shows
    log,      \* the logger's records, in order: [level, msg]
    nfig,     \* the number of matplotlib figures open
    error     \* the exception that propagated to the caller, "" if none:
              \* "render" and "savefig" are unexpected failures the environment
              \* injects into the drawing calls and into savefig

vars == <<df, config, call, pc, reports, figures, log, nfig, error>>

----------------------------------------------------------------------------
(* Bounds of the model. *)

\* Rows of the dataset handed to a single view.
MaxRows == 2

\* Rows of the dataset handed to generate_all_eda_plots.
MaxRowsAll == 2

\* Fixed-point resolution of the statistics (units per 1).
Scale == 10

----------------------------------------------------------------------------
(* Values. *)

NaN == <<>>

IsNa(c) == Len(c) = 0

\* Float arithmetic and comparison: an undefined operand gives an undefined
\* result, and an undefined value compares equal to nothing, itself included.
\* Sub with the operands swapped.
SubSwapped(a, b) == IF IsNa(a) \/ IsNa(b) THEN NaN ELSE <<b[1] - a[1]>>

Sub(a, b) == IF IsNa(a) \/ IsNa(b) THEN NaN ELSE <<a[1] - b[1]>>

Add(a, b) == IF IsNa(a) \/ IsNa(b) THEN NaN ELSE <<a[1] + b[1]>>

FloatEq(a, b) == ~IsNa(a) /\ ~IsNa(b) /\ a[1] = b[1]

RECURSIVE SumSeq(_)
SumSeq(s) == IF s = <<>> THEN 0 ELSE Head(s) + SumSeq(Tail(s))

RECURSIVE ISqrtFrom(_, _)
ISqrtFrom(n, r) == IF (r + 1) * (r + 1) > n THEN r ELSE ISqrtFrom(n, r + 1)

\* Floor of the square root.
ISqrt(n) == ISqrtFrom(n, 0)

Min(s) == CHOOSE x \in {s[i] : i \in DOMAIN s} : \A j \in DOMAIN s : x <= s[j]

Max(s) == CHOOSE x \in {s[i] : i \in DOMAIN s} : \A j \in DOMAIN s : x >= s[j]

----------------------------------------------------------------------------
(* pandas Series statistics, on a non-empty sequence of defined numbers. *)

SortedNums(v) == SortSeq(v, LAMBDA a, b : a < b)

Mean(v) == <<(SumSeq(v) * Scale) \div Len(v)>>

\* Sample standard deviation (ddof = 1): undefined for a single observation.
Std(v) ==
    LET n == Len(v)
        s == SumSeq(v)
        q == SumSeq([i \in 1..n |-> v[i] * v[i]])
    IN IF n < 2 THEN NaN
       ELSE <<ISqrt(((n * q - s * s) * Scale * Scale) \div (n * (n - 1)))>>

Median(v) ==
    LET n == Len(v)
        s == SortedNums(v)
    IN IF n % 2 = 1 THEN <<s[(n + 1) \div 2] * Scale>>
       ELSE <<((s[n \div 2] + s[n \div 2 + 1]) * Scale) \div 2>>

Count(v) == <<Len(v)>>

----------------------------------------------------------------------------
(* pandas DataFrame operations. *)

\* HasCols with any in the place of all.
HasAnyCol(d, required_cols) == required_cols \cap d.cols # {}

\* all(col in df.columns for col in required_cols)
HasCols(d, required_cols) == required_cols \subseteq d.cols

\* df[col], df.dropna(subset=cols), data=df with x=col: naming a column the
\* dataset lacks raises KeyError.
KeyError(d, cols) == ~(cols \subseteq d.cols)

\* DataFrame.empty: no rows, or no columns.
Empty(d) == Len(d.rows) = 0 \/ d.cols = {}

\* df.dropna(subset=...): the rows defined in every column of the subset.
DropNa(rows, subset) ==
    SelectSeq(rows, LAMBDA r : \A c \in subset : ~IsNa(r[c]))

\* The defined values of a column, in row order.
ColValues(rows, c) == [i \in 1..Len(rows) |-> rows[i][c][1]]

RECURSIVE UniqueSeq(_)
\* Series.unique(): the distinct values in order of first appearance.
UniqueSeq(s) ==
    IF s = <<>> THEN <<>>
    ELSE <<Head(s)>> \o SelectSeq(UniqueSeq(Tail(s)), LAMBDA x : x # Head(s))

SeqToSet(s) == {s[i] : i \in DOMAIN s}

\* The key pairs observed by groupby([c1, c2]).
Keys2(rows, c1, c2) == {<<rows[i][c1][1], rows[i][c2][1]>> : i \in DOMAIN rows}

\* The rows of one group.
Group2(rows, c1, c2, k) ==
    SelectSeq(rows, LAMBDA r : r[c1][1] = k[1] /\ r[c2][1] = k[2])

\* pd.MultiIndex.from_product([a, b]): every pair, the first level outermost.
FromProduct(a, b) ==
    [i \in 1..(Len(a) * Len(b)) |->
        <<a[((i - 1) \div Len(b)) + 1], b[((i - 1) % Len(b)) + 1]>>]

----------------------------------------------------------------------------
(* The world a view acts on, and the two helpers that write files. *)

World0 ==
    [reports |-> reports, figures |-> figures, log |-> log, nfig |-> nfig,
     df |-> df, status |-> "ok", error |-> ""]

Log(w, level, msg) ==
    [w EXCEPT !.log = Append(@, [level |-> level, msg |-> msg])]

\* An error that is recorded while the statements after it still run.
RaiseAndGoOn(w, kind) == [w EXCEPT !.error = kind]

\* An exception leaves the function; nothing after it runs.
Raise(w, kind) == [w EXCEPT !.status = "raised", !.error = kind]

\* plt.figure(...)
NewFigure(w) == [w EXCEPT !.nfig = @ + 1]

\* plt.close(fig)
CloseFigure(w) == [w EXCEPT !.nfig = @ - 1]

\* save_plot(fig, filename): savefig, then close, then log.  A failing savefig
\* leaves the function before the figure is closed.
save_plot(w, filename, shown, flt) ==
    IF flt = "savefig" THEN Raise(w, "savefig")
    ELSE Log(CloseFigure([w EXCEPT !.figures = (filename :> shown) @@ @]),
             "info", "Plot saved")

\* A write that leaves a file that is already there as it is.
SaveDataframeAsTextOnce(w, table, filename, title) ==
    Log([w EXCEPT !.reports = @ @@ (filename :> [title |-> title, table |-> table])],
        "info", "Table data saved")

\* _save_dataframe_as_text(df, filename, title): (over)writes the text file.
SaveDataframeAsText(w, table, filename, title) ==
    Log([w EXCEPT !.reports = (filename :> [title |-> title, table |-> table]) @@ @],
        "info", "Table data saved")

\* The drawing calls between plt.figure and save_plot: they raise when the
\* environment injects a rendering failure, and the figure then stays open.
Draw(w, filename, shown, flt) ==
    IF flt = "render" THEN Raise(w, "render")
    ELSE save_plot(w, filename, shown, flt)

\* fig = plt.figure(...); the drawing calls; save_plot(fig, filename).
Render(w, filename, shown, flt) == Draw(NewFigure(w), filename, shown, flt)

\* metric.replace('_', ' ').title() and plot_type.title(), on the names of
\* the model.
TitleCase(col) ==
    CASE col = "comment_score" -> "Comment Score"
      [] col = "compound_sentiment" -> "Compound Sentiment"
      [] col = "word_count" -> "Word Count"
      [] col = "violin" -> "Violin"
      [] col = "box" -> "Box"
      [] col = "swarm" -> "Swarm"
      [] OTHER -> col

----------------------------------------------------------------------------
(* Aggregation: groupby(...).agg([...]) with the mean +/- std bounds. *)

\* .agg(["mean", "std", "median", "count"]) of one group, then
\* lower_bound = mean - std and upper_bound = mean + std.
AggWithBounds(v) ==
    [mean |-> Mean(v), std |-> Std(v), median |-> Median(v), count |-> Count(v),
     lower_bound |-> Sub(Mean(v), Std(v)), upper_bound |-> Add(Mean(v), Std(v))]

\* The row reindex() makes for a key the grouped table does not hold.
NaNStats ==
    [mean |-> NaN, std |-> NaN, median |-> NaN, count |-> NaN,
     lower_bound |-> NaN, upper_bound |-> NaN]

\* groupby([c1, c2])[metric].agg(...): one entry per observed key pair.
GroupAgg2(rows, c1, c2, metric) ==
    [k \in Keys2(rows, c1, c2) |->
        AggWithBounds(ColValues(Group2(rows, c1, c2, k), metric))]

\* Reindex with the reindexing step left out: only the observed keys.
ReindexObservedOnly(grouped, idx) ==
    LET kept == SelectSeq(idx, LAMBDA k : k \in DOMAIN grouped)
    IN [i \in 1..Len(kept) |-> [key |-> kept[i], stats |-> grouped[kept[i]]]]

\* grouped.set_index([c1, c2]).reindex(idx).reset_index(): one row per entry
\* of idx, in idx's order; a key the grouped table lacks gets undefined
\* statistics, and a grouped key that idx lacks is dropped.
Reindex(grouped, idx) ==
    [i \in 1..Len(idx) |->
        [key |-> idx[i],
         stats |-> IF idx[i] \in DOMAIN grouped THEN grouped[idx[i]] ELSE NaNStats]]

----------------------------------------------------------------------------
(* plot_average_metric_by_time_and_event *)

\* The four periods and one more.
all_periods_and_long_after ==
    <<"Before Event", "During Event", "After Event", "Outside Window", "Long After">>

all_periods == <<"Before Event", "During Event", "After Event", "Outside Window">>

plot_average_metric_by_time_and_event(w, d, metric, filename_prefix, flt) ==
    LET required_cols == {metric, "event_name", "time_period"}
        df_filtered == DropNa(d.rows, required_cols)
        all_events == UniqueSeq(ColValues(df_filtered, "event_name"))
        grouped == Reindex(GroupAgg2(df_filtered, "time_period", "event_name", metric),
                           FromProduct(all_periods, all_events))
    IN IF ~HasCols(d, required_cols)
       THEN Log(w, "error", "Missing one or more required columns")
       ELSE IF KeyError(d, required_cols) THEN Raise(w, "KeyError")
       ELSE IF df_filtered = <<>>
       THEN Log(w, "warning", "No valid data after filtering NaNs")
       ELSE Render(
              SaveDataframeAsText(w, grouped,
                  filename_prefix \o "_by_time_period_and_event.txt",
                  "Average " \o TitleCase(metric)
                      \o " by Time Period and Event (incl. Range)"),
              filename_prefix \o "_by_time_period_and_event_extended.png",
              [kind |-> "barplot", data |-> grouped], flt)

----------------------------------------------------------------------------
(* plot_metric_by_event_and_type *)

\* selected_types is None, or a list.
None == [given |-> FALSE, list |-> <<>>]

List(l) == [given |-> TRUE, list |-> l]

\* "if selected_types is not None:": a list, empty or not.
IsGiven(selected_types) == selected_types.given

\* "if selected_types:": a list that holds something.
Truthy(selected_types) == selected_types.given /\ selected_types.list # <<>>

\* The selection with every row kept.
IsInKeepsAll(rows, c, l) == rows

\* df_filtered[df_filtered["post_type"].isin(selected_types)]
IsIn(rows, c, l) == SelectSeq(rows, LAMBDA r : r[c][1] \in SeqToSet(l))

plot_metric_by_event_and_type(w, d, metric, filename, selected_types, flt) ==
    LET required_cols == {metric, "event_name", "post_type"}
        dropped == DropNa(d.rows, required_cols)
        df_filtered == IF Truthy(selected_types)
                       THEN IsIn(dropped, "post_type", selected_types.list)
                       ELSE dropped
        post_types == UniqueSeq(ColValues(df_filtered, "post_type"))
        events == UniqueSeq(ColValues(df_filtered, "event_name"))
        grouped == Reindex(GroupAgg2(df_filtered, "post_type", "event_name", metric),
                           FromProduct(post_types, events))
    IN IF ~HasCols(d, required_cols)
       THEN Log(w, "error", "Missing one or more required columns")
       ELSE IF KeyError(d, required_cols) THEN Raise(w, "KeyError")
       ELSE IF df_filtered = <<>>
       THEN Log(w, "warning", "No valid data after filtering NaNs/types")
       ELSE Render(
              SaveDataframeAsText(w, grouped,
                  metric \o "_by_post_type_and_event.txt",
                  TitleCase(metric) \o " by Post Type and Event"),
              filename, [kind |-> "barplot", data |-> grouped], flt)

----------------------------------------------------------------------------
(* plot_feature_distribution *)

\* The number of points np.linspace is asked for.
KdePoints == 200

\* np.linspace(lo, hi, KdePoints): point i is lo + (i - 1) * (hi - lo) /
\* (KdePoints - 1).  The values are kept exactly, in units of 1 / (KdePoints - 1).
Linspace(lo, hi) ==
    [i \in 1..KdePoints |-> (KdePoints - 1) * lo + (i - 1) * (hi - lo)]

\* gaussian_kde(values) inverts the covariance of the data, and raises
\* LinAlgError when the data have zero variance (every value the same).
GaussianKdeRaises(values) == Min(values) = Max(values)

\* The rows of kde_df: the sampled x of each point (the density estimate
\* itself is not modelled).
KdeCurve(values) ==
    LET x_vals == Linspace(Min(values), Max(values))
    IN [i \in 1..KdePoints |-> [x |-> <<x_vals[i]>>]]

\* The one-row summary table.
Summary(values) ==
    <<[Mean |-> Mean(values), Median |-> Median(values), Std |-> Std(values),
       Count |-> Count(values),
       LowerBound |-> Sub(Mean(values), Std(values)),
       UpperBound |-> Add(Mean(values), Std(values))]>>

\* Series.nunique(): the number of distinct defined values.
NUnique(rows, c) == Cardinality(SeqToSet(ColValues(DropNa(rows, {c}), c)))

\* What the histogram shows: split by event, or one series.
Histogram(d, feature, values) ==
    IF HasCols(d, {"event_name"}) /\ NUnique(d.rows, "event_name") > 1
          /\ DropNa(d.rows, {feature, "event_name"}) # <<>>
    THEN [kind |-> "histplot", hue |-> TRUE,
          n |-> Len(DropNa(d.rows, {feature, "event_name"}))]
    ELSE [kind |-> "histplot", hue |-> FALSE, n |-> Len(values)]

\* KdeStep with the test for two observations off by one.
KdeStepFromOne(w, values, feature, filename_prefix) ==
    IF Len(values) > 0
    THEN IF GaussianKdeRaises(values) THEN Raise(w, "LinAlgError")
         ELSE SaveDataframeAsText(w, KdeCurve(values),
                  filename_prefix \o feature \o "_kde_curve.txt",
                  feature \o " KDE Curve Data")
    ELSE Log(w, "warning", "Not enough data points to generate KDE curve")

\* The step from the summary to the histogram: the KDE curve, when there are
\* at least two observations.
KdeStep(w, values, feature, filename_prefix) ==
    IF Len(values) > 1
    THEN IF GaussianKdeRaises(values) THEN Raise(w, "LinAlgError")
         ELSE SaveDataframeAsText(w, KdeCurve(values),
                  filename_prefix \o feature \o "_kde_curve.txt",
                  feature \o " KDE Curve Data")
    ELSE Log(w, "warning", "Not enough data points to generate KDE curve")

\* The histogram: a warning first when the split by event has nothing to show.
HistogramStep(w, d, feature, values, filename_prefix, flt) ==
    LET w1 == IF HasCols(d, {"event_name"}) /\ NUnique(d.rows, "event_name") > 1
                 /\ DropNa(d.rows, {feature, "event_name"}) = <<>>
              THEN Log(NewFigure(w), "warning", "No valid data with event_name")
              ELSE NewFigure(w)
    IN IF HasCols(d, {"event_name"}) /\ KeyError(d, {"event_name"})
       THEN Raise(NewFigure(w), "KeyError")
       ELSE Draw(w1, filename_prefix \o feature \o "_histogram_extended.png",
            Histogram(d, feature, values), flt)

plot_feature_distribution(w, d, feature, filename_prefix, flt) ==
    LET values == ColValues(DropNa(d.rows, {feature}), feature)
        w1 == SaveDataframeAsText(w, Summary(values),
                  filename_prefix \o feature \o "_summary.txt",
                  feature \o " Distribution Summary")
        w2 == KdeStep(w1, values, feature, filename_prefix)
    IN IF ~HasCols(d, {feature})
       THEN Log(w, "error", "Feature column not found")
       ELSE IF KeyError(d, {feature}) THEN Raise(w, "KeyError")
       ELSE IF values = <<>>
       THEN Log(w, "warning", "No valid data for feature")
       ELSE IF w2.status = "raised" THEN w2
       ELSE HistogramStep(w2, d, feature, values, filename_prefix, flt)

----------------------------------------------------------------------------
(* plot_distribution_comparison *)

\* The event names of the model, in sorted order: groupby sorts its keys.
EventNames == <<"A", "B">>

Sorted(universe, set) == SelectSeq(universe, LAMBDA x : x \in set)

\* groupby("event_name")[feature].agg(["count", "mean", "median", "std",
\* "min", "max"]) with the bounds: one row per observed event, sorted.
EventStats(rows, feature) ==
    LET events == Sorted(EventNames, SeqToSet(ColValues(rows, "event_name")))
        vals(e) == ColValues(SelectSeq(rows, LAMBDA r : r["event_name"][1] = e),
                             feature)
    IN [i \in 1..Len(events) |->
          [event_name |-> events[i],
           count |-> Count(vals(events[i])), mean |-> Mean(vals(events[i])),
           median |-> Median(vals(events[i])), std |-> Std(vals(events[i])),
           min |-> <<Min(vals(events[i])) * Scale>>,
           max |-> <<Max(vals(events[i])) * Scale>>,
           lower_bound |-> Sub(Mean(vals(events[i])), Std(vals(events[i]))),
           upper_bound |-> Add(Mean(vals(events[i])), Std(vals(events[i])))]]

plot_distribution_comparison(w, d, feature, filename_prefix, plot_type, flt) ==
    LET required_cols == {feature, "event_name"}
        data == DropNa(d.rows, required_cols)
        grouped == EventStats(data, feature)
        w1 == SaveDataframeAsText(w, grouped,
                  filename_prefix \o feature \o "_" \o plot_type \o "_stats.txt",
                  feature \o " Distribution by Event (" \o TitleCase(plot_type)
                      \o " Plot Basis)")
        w2 == NewFigure(w1)
    IN IF ~HasCols(d, required_cols)
       THEN Log(w, "error", "Missing one or more required columns")
       ELSE IF KeyError(d, required_cols) THEN Raise(w, "KeyError")
       ELSE IF data = <<>>
       THEN Log(w, "warning", "No valid data after filtering NaNs")
       ELSE IF plot_type \in {"violin", "box"}
       THEN Draw(w2, filename_prefix \o feature \o "_" \o plot_type \o "_extended.png",
                 [kind |-> plot_type, data |-> data], flt)
       ELSE CloseFigure(Log(w2, "error", "Invalid plot_type"))

----------------------------------------------------------------------------
(* The views that draw the data as given. *)

plot_posting_behavior_hist(w, d, x_label, hue_label, filename, flt) ==
    IF Empty(d)
    THEN Log(w, "warning", "DataFrame is empty")
    ELSE IF ~HasCols(d, {x_label, hue_label})
    THEN Log(w, "error", "Missing required columns")
    ELSE IF KeyError(d, {x_label, hue_label}) THEN Raise(w, "KeyError")
    ELSE Render(w, filename, [kind |-> "histplot", data |-> d.rows], flt)

plot_posting_behavior_heatmap(w, d, filename, flt) ==
    IF Empty(d)
    THEN Log(w, "warning", "DataFrame is empty")
    ELSE Render(w, filename, [kind |-> "heatmap", data |-> d.rows], flt)

plot_score_development(w, d, x_label, y_label, hue_label, filename, flt) ==
    IF Empty(d)
    THEN Log(w, "warning", "DataFrame is empty")
    ELSE IF ~HasCols(d, {x_label, y_label, hue_label})
    THEN Log(w, "error", "Missing one or more required columns")
    ELSE IF KeyError(d, {x_label, y_label, hue_label}) THEN Raise(w, "KeyError")
    ELSE Render(w, filename, [kind |-> "lineplot", data |-> d.rows], flt)

plot_boxplot_with_stats(w, d, x, y, hue, filename, flt) ==
    LET required_cols == {x, y, hue}
        df_filtered == DropNa(d.rows, required_cols)
    IN IF ~HasCols(d, required_cols)
       THEN Log(w, "error", "Missing one or more required columns")
       ELSE IF KeyError(d, required_cols) THEN Raise(w, "KeyError")
       ELSE IF df_filtered = <<>>
       THEN Log(w, "warning", "No valid data after filtering NaNs")
       ELSE Render(w, filename, [kind |-> "boxplot", data |-> df_filtered], flt)

plot_dual_distribution(w, d, feature1, feature2, filename, flt) ==
    LET required_cols == {feature1, feature2}
        df_filtered == DropNa(d.rows, required_cols)
    IN IF ~HasCols(d, required_cols)
       THEN Log(w, "error", "Missing one or more required columns")
       ELSE IF KeyError(d, required_cols) THEN Raise(w, "KeyError")
       ELSE IF df_filtered = <<>>
       THEN Log(w, "warning", "No valid data after filtering NaNs")
       ELSE Render(w, filename, [kind |-> "histplot", data |-> df_filtered], flt)

----------------------------------------------------------------------------
(* plot_pearson_correlation *)

additional_numerical_cols ==
    <<"comment_score", "post_score", "post_num_comments", "upvote_ratio",
      "compound_sentiment", "word_count">>

\* getattr(config, "NUMERICAL_FEATURES", []) + getattr(config, "BOOLEAN_FEATURES", [])
numerical_cols_from_config(cfg) == cfg.NUMERICAL_FEATURES \o cfg.BOOLEAN_FEATURES

\* available_numerical_cols without the test of the dtype.
available_cols_any_dtype(d, cfg) ==
    {col \in SeqToSet(numerical_cols_from_config(cfg) \o additional_numerical_cols) :
        col \in d.cols}

\* The candidate columns that are in the dataset with a numeric dtype.
available_numerical_cols(d, cfg) ==
    {col \in SeqToSet(numerical_cols_from_config(cfg) \o additional_numerical_cols) :
        col \in d.cols /\ col \in d.numeric}

plot_pearson_correlation(w, d, cfg, filename, flt) ==
    IF Empty(d)
    THEN Log(w, "warning", "DataFrame is empty")
    ELSE IF Cardinality(available_numerical_cols(d, cfg)) < 2
    THEN Log(w, "warning", "Not enough numerical columns (need at least 2)")
    ELSE Render(Log(Log(w, "info", "Calculating Pearson Correlations"),
                    "info", "Correlation Matrix"),
                filename,
                [kind |-> "heatmap", index |-> available_numerical_cols(d, cfg)], flt)

----------------------------------------------------------------------------
(* The keyword-by-event heatmaps. *)

\* The keyword values of the model, in sorted order.
Keywords == <<"goal", "win">>

\* The rows of one (index value, event) cell.
Cell(rows, index_col, k, e) ==
    SelectSeq(rows, LAMBDA r : r[index_col][1] = k /\ r["event_name"][1] = e)

\* pivot_table(index=index_col, columns="event_name", values=value_col,
\* aggfunc="mean"): observed index values x observed events, undefined where
\* no row falls.
PivotMean(rows, index_col, value_col) ==
    [c \in SeqToSet(ColValues(rows, index_col))
            \X SeqToSet(ColValues(rows, "event_name")) |->
        IF Cell(rows, index_col, c[1], c[2]) = <<>> THEN NaN
        ELSE Mean(ColValues(Cell(rows, index_col, c[1], c[2]), value_col))]

\* .fillna(0)
FillNa0(pivot) == [c \in DOMAIN pivot |-> IF IsNa(pivot[c]) THEN <<0>> ELSE pivot[c]]

\* groupby(["event_name", keyword_col]).size() pivoted to keyword x event,
\* .fillna(0)
PivotCount(rows, keyword_col) ==
    [c \in SeqToSet(ColValues(rows, keyword_col))
            \X SeqToSet(ColValues(rows, "event_name")) |->
        <<Len(Cell(rows, keyword_col, c[1], c[2]))>>]

\* The share of each cell in the whole table, in percent.
PivotPercentOfAll(pivot) ==
    [c \in DOMAIN pivot |->
        <<(pivot[c][1] * 100 * Scale)
            \div SumSeq([i \in 1..(Len(Keywords) * Len(EventNames)) |->
                LET k == <<Keywords[((i - 1) \div Len(EventNames)) + 1],
                           EventNames[((i - 1) % Len(EventNames)) + 1]>>
                IN IF k \in DOMAIN pivot THEN pivot[k][1] ELSE 0])>>]

\* pivot.div(pivot.sum(axis=0), axis=1) * 100: the share of each keyword
\* within its event, in percent.
PivotPercent(pivot) ==
    [c \in DOMAIN pivot |->
        <<(pivot[c][1] * 100 * Scale)
            \div SumSeq([i \in 1..Len(Keywords) |->
                           IF <<Keywords[i], c[2]>> \in DOMAIN pivot
                           THEN pivot[<<Keywords[i], c[2]>>][1] ELSE 0])>>]

plot_eventwise_heatmap(w, d, index_col, value_col, filename, flt) ==
    LET required_cols == {index_col, "event_name", value_col}
        df_filtered == DropNa(d.rows, required_cols)
    IN IF ~HasCols(d, required_cols)
       THEN Log(w, "error", "Missing one or more required columns")
       ELSE IF KeyError(d, required_cols) THEN Raise(w, "KeyError")
       ELSE IF df_filtered = <<>>
       THEN Log(w, "warning", "No valid data after filtering NaNs")
       ELSE Render(w, filename,
                   [kind |-> "heatmap",
                    data |-> PivotMean(df_filtered, index_col, value_col)], flt)

plot_event_keyword_distribution(w, d, keyword_col, filename, flt) ==
    LET required_cols == {"event_name", keyword_col}
        df_filtered == DropNa(d.rows, required_cols)
    IN IF ~HasCols(d, required_cols)
       THEN Log(w, "error", "Missing one or more required columns")
       ELSE IF KeyError(d, required_cols) THEN Raise(w, "KeyError")
       ELSE IF df_filtered = <<>>
       THEN Log(w, "warning", "No valid data after filtering NaNs")
       ELSE Render(w, filename,
                   [kind |-> "heatmap",
                    data |-> PivotPercent(PivotCount(df_filtered, keyword_col))], flt)

plot_keyword_score_heatmap(w, d, keyword_col, score_col, filename, flt) ==
    LET required_cols == {keyword_col, "event_name", score_col}
        df_filtered == DropNa(d.rows, required_cols)
    IN IF ~HasCols(d, required_cols)
       THEN Log(w, "error", "Missing one or more required columns")
       ELSE IF KeyError(d, required_cols) THEN Raise(w, "KeyError")
       ELSE IF df_filtered = <<>>
       THEN Log(w, "warning", "No valid data after filtering NaNs")
       ELSE Render(w, filename,
                   [kind |-> "heatmap",
                    data |-> FillNa0(PivotMean(df_filtered, keyword_col, score_col))],
                   flt)

----------------------------------------------------------------------------
(* plot_engagement_per_day *)

order ==
    <<"Monday", "Tuesday", "Wednesday", "Thursday", "Friday", "Saturday", "Sunday">>

\* day_name() of a week that starts on Sunday.
DayNameFromSunday(t) == order[((t + 6) % Len(order)) + 1]

\* pd.to_datetime(...).dt.day_name(): a timestamp is a number of days since
\* a Monday.
DayName(t) == order[(t % Len(order)) + 1]

\* df_filtered["day_of_week"] = ...: the filtered rows with the derived column.
WithDayOfWeek(rows, time_col) ==
    [i \in 1..Len(rows) |-> ("day_of_week" :> <<DayName(rows[i][time_col][1])>>) @@ rows[i]]

\* groupby(["day_of_week", "event_name"])[engagement_col].mean(): one entry
\* per observed (day, event) pair.
DayEventMean(rows, engagement_col) ==
    [k \in Keys2(rows, "day_of_week", "event_name") |->
        Mean(ColValues(Group2(rows, "day_of_week", "event_name", k), engagement_col))]

\* df_filtered = df: the name bound to the caller's own table.
NoCopy(d, subset) == [owner |-> "caller", rows |-> DropNa(d.rows, subset)]

\* df.dropna(subset=...).copy(): a table of the view's own, holding the rows
\* that are defined in every column of subset.
DropNaCopy(d, subset) == [owner |-> "view", rows |-> DropNa(d.rows, subset)]

\* frame[col] = ...: the assignment is made in the table frame names; rows are
\* the rows of that table after it.  It reaches the caller's dataset only when
\* frame is the caller's table.
SetItem(w, frame, col, rows) ==
    IF frame.owner = "caller"
    THEN [w EXCEPT !.df = [cols |-> @.cols \cup {col}, numeric |-> @.numeric,
                           rows |-> rows]]
    ELSE w

\* The time column of the model already holds timestamps, which
\* pd.to_datetime (line 802) leaves as they are; line 803 adds day_of_week.
plot_engagement_per_day(w, d, time_col, engagement_col, filename, flt) ==
    LET required_cols == {time_col, engagement_col, "event_name"}
        df_filtered == DropNaCopy(d, required_cols)
        with_day == WithDayOfWeek(df_filtered.rows, time_col)
        grouped == DayEventMean(with_day, engagement_col)
    IN IF ~HasCols(d, required_cols)
       THEN Log(w, "error", "Missing one or more required columns")
       ELSE IF KeyError(d, required_cols) THEN Raise(w, "KeyError")
       ELSE IF df_filtered.rows = <<>>
       THEN Log(w, "warning", "No valid data after filtering NaNs")
       ELSE Render(SetItem(SetItem(w, df_filtered, time_col, df_filtered.rows),
                           df_filtered, "day_of_week", with_day),
                   filename,
                   [kind |-> "barplot", order |-> order, data |-> grouped], flt)

----------------------------------------------------------------------------
(* generate_all_eda_plots *)

\* The allow-list of the filtered word count call.
selected_types == <<"Player Transfer", "Other", "Tournament Result", "Ranking Update">>

\* A statement after w: it runs unless an exception is propagating.
Then(w, F(_)) == IF w.status = "raised" THEN w ELSE F(w)

\* The failure the environment injects into call number i of the run: flt
\* names the call (0: none) and the kind.
FaultAt(flt, i) == IF flt.at = i THEN flt.kind ELSE "none"

\* groupby(["event_name", "time_period"]).size().unstack(fill_value=0) with the
\* row percentages beside the counts: one entry per (observed event, observed
\* period).
CombinedTable(rows) ==
    LET events == SeqToSet(ColValues(rows, "event_name"))
        periods == SeqToSet(ColValues(rows, "time_period"))
        n(e, p) == Len(SelectSeq(rows, LAMBDA r :
                          r["event_name"][1] = e /\ r["time_period"][1] = p))
        total(e) == Len(SelectSeq(rows, LAMBDA r : r["event_name"][1] = e))
    IN [k \in events \X periods |->
          [count |-> <<n(k[1], k[2])>>,
           percent |-> <<(n(k[1], k[2]) * 100 * Scale) \div total(k[1])>>]]

\* The count plot with the table written before the figure is drawn.
CountPlotSectionTableFirst(w, d, flt) ==
    LET df_filtered_time_period == DropNa(d.rows, {"time_period", "event_name"})
    IN IF ~HasCols(d, {"time_period", "event_name"})
       THEN Log(w, "warning", "Missing 'time_period' or 'event_name' column")
       ELSE IF df_filtered_time_period = <<>>
       THEN Log(w, "warning", "No valid data after filtering")
       ELSE Render(
              SaveDataframeAsText(w, CombinedTable(df_filtered_time_period),
                  "comment_distribution_time_periods_table.txt",
                  "Comment Distribution Across Time Periods by Event (Counts and Percentages)"),
              "comment_distribution_time_periods.png",
              [kind |-> "countplot", data |-> df_filtered_time_period], flt)

\* The count plot of the time periods, written inline in
\* generate_all_eda_plots: the figure is drawn first, then the table is
\* written, then the image.
CountPlotSection(w, d, flt) ==
    LET df_filtered_time_period == DropNa(d.rows, {"time_period", "event_name"})
        drawn == IF flt = "render" THEN Raise(NewFigure(w), "render")
                 ELSE NewFigure(w)
    IN IF ~HasCols(d, {"time_period", "event_name"})
       THEN Log(w, "warning", "Missing 'time_period' or 'event_name' column")
       ELSE IF KeyError(d, {"time_period", "event_name"}) THEN Raise(w, "KeyError")
       ELSE IF df_filtered_time_period = <<>>
       THEN Log(w, "warning", "No valid data after filtering")
       ELSE Then(drawn, LAMBDA x :
              save_plot(
                SaveDataframeAsText(x, CombinedTable(df_filtered_time_period),
                    "comment_distribution_time_periods_table.txt",
                    "Comment Distribution Across Time Periods by Event (Counts and Percentages)"),
                "comment_distribution_time_periods.png",
                [kind |-> "countplot", data |-> df_filtered_time_period], flt))

\* The four calls under "if 'post_type' in df.columns and 'event_name' in
\* df.columns".
PostTypeSection(w, d, flt) ==
    IF HasCols(d, {"post_type", "event_name"})
    THEN Then(Then(Then(
           plot_metric_by_event_and_type(w, d, "comment_score",
               "avg_comment_score_by_post_type.png", None, FaultAt(flt, 10)),
           LAMBDA x : plot_metric_by_event_and_type(x, d, "compound_sentiment",
               "avg_sentiment_by_post_type.png", None, FaultAt(flt, 11))),
           LAMBDA x : plot_metric_by_event_and_type(x, d, "word_count",
               "avg_word_count_by_post_type.png", None, FaultAt(flt, 12))),
           LAMBDA x : plot_metric_by_event_and_type(x, d, "word_count",
               "filtered_avg_word_count_by_post_type_and_event.png",
               List(selected_types), FaultAt(flt, 13)))
    ELSE Log(w, "warning", "Missing 'post_type' or 'event_name' column")

\* The two calls under "if 'created_utc' in df.columns and 'event_name' in
\* df.columns".
DayOfWeekSection(w, d, flt) ==
    IF HasCols(d, {"created_utc", "event_name"})
    THEN Then(
           plot_engagement_per_day(w, d, "created_utc", "comment_score",
               "avg_comment_score_by_day_of_week.png", FaultAt(flt, 15)),
           LAMBDA x : plot_engagement_per_day(x, d, "created_utc", "compound_sentiment",
               "avg_sentiment_by_day_of_week.png", FaultAt(flt, 16)))
    ELSE Log(w, "warning", "Missing 'created_utc' or 'event_name'")

\* The three histograms, then the three violin plots.
DistributionSections(w, d, flt) ==
    Then(Then(Then(Then(Then(
      plot_feature_distribution(Log(w, "info", "Generating Feature Distribution Plots"),
          d, "compound_sentiment", "dist_sentiment_", FaultAt(flt, 1)),
      LAMBDA x : plot_feature_distribution(x, d, "comment_score",
          "dist_comment_score_", FaultAt(flt, 2))),
      LAMBDA x : plot_feature_distribution(x, d, "word_count",
          "dist_word_count_", FaultAt(flt, 3))),
      LAMBDA x : plot_distribution_comparison(
          Log(x, "info", "Generating Distribution Comparison Plots"),
          d, "compound_sentiment", "dist_comp_sentiment_", "violin", FaultAt(flt, 4))),
      LAMBDA x : plot_distribution_comparison(x, d, "comment_score",
          "dist_comp_comment_score_", "violin", FaultAt(flt, 5))),
      LAMBDA x : plot_distribution_comparison(x, d, "word_count",
          "dist_comp_word_count_", "violin", FaultAt(flt, 6)))

\* The count plot, then the two averages by time period.
TimePeriodSections(w, d, flt) ==
    Then(Then(
      CountPlotSection(Log(w, "info", "Generating Time Period Analysis Plots"),
          d, FaultAt(flt, 7)),
      LAMBDA x : plot_average_metric_by_time_and_event(x, d, "compound_sentiment",
          "avg_sentiment", FaultAt(flt, 8))),
      LAMBDA x : plot_average_metric_by_time_and_event(x, d, "comment_score",
          "avg_comment_score", FaultAt(flt, 9)))

generate_all_eda_plots(w, d, cfg, flt) ==
    IF Empty(d)
    THEN Log(Log(w, "info", "Generating Exploratory Data Analysis Plots"),
             "warning", "Input DataFrame is empty")
    ELSE Then(Then(Then(Then(Then(
      DistributionSections(
          Log(w, "info", "Generating Exploratory Data Analysis Plots"), d, flt),
      LAMBDA x : TimePeriodSections(x, d, flt)),
      LAMBDA x : PostTypeSection(
          Log(x, "info", "Generating Engagement by Post Type Plots"), d, flt)),
      LAMBDA x : plot_pearson_correlation(
          Log(x, "info", "Generating Pearson Correlation Matrix"), d, cfg,
          "pearson_correlation_matrix.png", FaultAt(flt, 14))),
      LAMBDA x : DayOfWeekSection(
          Log(x, "info", "Generating Additional Specific Plots"), d, flt)),
      LAMBDA x : Log(x, "info", "All EDA Plots Generated"))

----------------------------------------------------------------------------
(* The inputs: calls and the datasets they are given. *)

\* The values a cell of each column takes in the model (undefined included).
Dom(c) ==
    CASE c = "event_name" -> {NaN, <<"A">>, <<"B">>}
      [] c = "time_period" ->
            {NaN, <<"Before Event">>, <<"Long After">>}
      [] c = "post_type" -> {NaN, <<"Other">>, <<"Meme">>}
      [] c = "keyword" -> {NaN, <<"goal">>, <<"win">>}
      [] c = "created_utc" -> {NaN, <<0>>, <<6>>}
      [] OTHER -> {NaN, <<1>>, <<2>>}

\* The columns that hold numbers.
NumericCols ==
    {"comment_score", "compound_sentiment", "word_count", "post_length", "karma",
     "is_reply"}

\* The undefined value and one defined value of the column.
Narrow(c) == {NaN, CHOOSE v \in Dom(c) : ~IsNa(v)}

RECURSIVE RowsOver(_, _)
\* Every row over the columns S, the cells of column c drawn from dom[c].
RowsOver(S, dom) ==
    IF S = {} THEN {<<>>}
    ELSE LET c == CHOOSE x \in S : TRUE
         IN {(c :> v) @@ r : v \in dom[c], r \in RowsOver(S \ {c}, dom)}

SeqsUpTo(S, n) == UNION {[1..k -> S] : k \in 0..n}

\* Every dataset over a subset of the columns of dom, of at most n rows.
DatasetsOver(dom, n) ==
    UNION {{[cols |-> C, numeric |-> C \cap NumericCols, rows |-> rs] :
               rs \in SeqsUpTo(RowsOver(C, dom), n)} : C \in SUBSET DOMAIN dom}

Call(fn, col1, col2, col3, name, plot_type, sel) ==
    [fn |-> fn, col1 |-> col1, col2 |-> col2, col3 |-> col3, name |-> name,
     plot_type |-> plot_type, selected_types |-> sel]

\* The single-view calls of the model.  col1..col3 are the column arguments
\* in the order of the function's signature, name the file name or prefix.
ViewCalls ==
    {Call("plot_average_metric_by_time_and_event", "comment_score", "", "",
          "avg_comment_score", "", None),
     Call("plot_feature_distribution", "comment_score", "", "",
          "dist_comment_score_", "", None),
     Call("plot_posting_behavior_hist", "time_period", "event_name", "",
          "posting_hist.png", "", None),
     Call("plot_posting_behavior_heatmap", "", "", "",
          "posting_heatmap.png", "", None),
     Call("plot_score_development", "created_utc", "comment_score", "event_name",
          "score_development.png", "", None),
     Call("plot_eventwise_heatmap", "keyword", "comment_score", "",
          "eventwise_heatmap.png", "", None),
     Call("plot_boxplot_with_stats", "time_period", "comment_score", "event_name",
          "boxplot.png", "", None),
     Call("plot_event_keyword_distribution", "keyword", "", "",
          "keyword_distribution_heatmap.png", "", None),
     Call("plot_dual_distribution", "comment_score", "word_count", "",
          "dual_distribution.png", "", None),
     Call("plot_keyword_score_heatmap", "keyword", "comment_score", "",
          "keyword_score_heatmap.png", "", None),
     Call("plot_engagement_per_day", "created_utc", "comment_score", "",
          "avg_comment_score_by_day_of_week.png", "", None),
     Call("plot_pearson_correlation", "", "", "",
          "pearson_correlation_matrix.png", "", None)}
    \cup {Call("plot_metric_by_event_and_type", "word_count", "", "",
               "avg_word_count_by_post_type.png", "", sel) :
            sel \in {None, List(<<>>), List(selected_types)}}
    \cup {Call("plot_distribution_comparison", "comment_score", "", "",
               "dist_comp_comment_score_", pt, None) :
            pt \in {"violin", "box", "swarm"}}

\* The columns a call names as required.
RequiredCols(c) ==
    CASE c.fn = "plot_average_metric_by_time_and_event" ->
            {c.col1, "event_name", "time_period"}
      [] c.fn = "plot_metric_by_event_and_type" -> {c.col1, "event_name", "post_type"}
      [] c.fn = "plot_feature_distribution" -> {c.col1}
      [] c.fn = "plot_distribution_comparison" -> {c.col1, "event_name"}
      [] c.fn = "plot_posting_behavior_hist" -> {c.col1, c.col2}
      [] c.fn = "plot_score_development" -> {c.col1, c.col2, c.col3}
      [] c.fn = "plot_eventwise_heatmap" -> {c.col1, "event_name", c.col2}
      [] c.fn = "plot_boxplot_with_stats" -> {c.col1, c.col2, c.col3}
      [] c.fn = "plot_event_keyword_distribution" -> {"event_name", c.col1}
      [] c.fn = "plot_dual_distribution" -> {c.col1, c.col2}
      [] c.fn = "plot_keyword_score_heatmap" -> {c.col1, "event_name", c.col2}
      [] c.fn = "plot_engagement_per_day" -> {c.col1, c.col2, "event_name"}
      [] OTHER -> {}

\* The configurations of the model: a module without the two lists, and one
\* with them.
Configs ==
    {[NUMERICAL_FEATURES |-> <<>>, BOOLEAN_FEATURES |-> <<>>],
     [NUMERICAL_FEATURES |-> <<"post_length", "word_count">>,
      BOOLEAN_FEATURES |-> <<"is_reply">>]}

\* The columns of the datasets given to the correlation view: two fallback
\* names, the configured ones, a numeric column no list names, and a text one.
PearsonCols ==
    {"comment_score", "word_count", "post_length", "is_reply", "karma", "event_name"}

\* The datasets given to the correlation view: any column may be of numeric
\* or of object dtype; the cells are not read by the model.
PearsonDatasets ==
    {[cols |-> C, numeric |-> N,
      rows |-> [i \in 1..k |-> [c \in C |-> CHOOSE v \in Dom(c) : ~IsNa(v)]]] :
        C \in SUBSET PearsonCols, N \in SUBSET PearsonCols, k \in 0..MaxRows}

\* The datasets a call is tried on: over the columns it reads.
Datasets(c) ==
    CASE c.fn = "plot_pearson_correlation" ->
            {d \in PearsonDatasets : d.numeric \subseteq d.cols}
      [] c.fn = "plot_feature_distribution" ->
            DatasetsOver([col \in RequiredCols(c) \cup {"event_name"} |-> Dom(col)],
                         MaxRows)
      [] c.fn = "plot_posting_behavior_heatmap" ->
            DatasetsOver([col \in {"comment_score"} |-> Narrow(col)], MaxRows)
      [] c.fn \in {"plot_posting_behavior_hist", "plot_score_development",
                   "plot_boxplot_with_stats", "plot_dual_distribution"} ->
            DatasetsOver([col \in RequiredCols(c) |-> Narrow(col)], MaxRows)
      [] c.fn \in {"plot_eventwise_heatmap", "plot_keyword_score_heatmap"} ->
            DatasetsOver([col \in RequiredCols(c) |->
                            IF col \in NumericCols THEN Narrow(col) ELSE Dom(col)],
                         MaxRows)
      [] OTHER -> DatasetsOver([col \in RequiredCols(c) |-> Dom(col)], MaxRows)

\* The unexpected failures the environment may inject into a call: none, one
\* inside the drawing calls, one inside savefig.  A failure takes effect only
\* if the call gets to that point.
Faults == {"none", "render", "savefig"}

----------------------------------------------------------------------------
(* The state machine: one call of one view. *)

\* The state before a call of one of fns, on a dataset the call is tried on.
InitOf(fns) ==
    /\ call \in {c \in ViewCalls : c.fn \in fns}
    /\ df \in Datasets(call)
    /\ config \in IF call.fn = "plot_pearson_correlation" THEN Configs
                  ELSE {[NUMERICAL_FEATURES |-> <<>>, BOOLEAN_FEATURES |-> <<>>]}
    /\ pc = "ready"
    /\ reports = <<>>
    /\ figures = <<>>
    /\ log = <<>>
    /\ nfig = 0
    /\ error = ""

Init == InitOf({c.fn : c \in ViewCalls})

\* The call ends: its effects become the state.
Commit(w) ==
    /\ reports' = w.reports
    /\ figures' = w.figures
    /\ log' = w.log
    /\ nfig' = w.nfig
    /\ error' = w.error
    /\ pc' = IF w.status = "raised" THEN "raised" ELSE "returned"
    /\ df' = w.df
    /\ UNCHANGED <<config, call>>

Ready(fn) == pc = "ready" /\ call.fn = fn

AverageMetricByTimeAndEvent ==
    /\ Ready("plot_average_metric_by_time_and_event")
    /\ \E flt \in Faults :
          Commit(plot_average_metric_by_time_and_event(
                     World0, df, call.col1, call.name, flt))

MetricByEventAndType ==
    /\ Ready("plot_metric_by_event_and_type")
    /\ \E flt \in Faults :
          Commit(plot_metric_by_event_and_type(
                     World0, df, call.col1, call.name, call.selected_types, flt))

FeatureDistribution ==
    /\ Ready("plot_feature_distribution")
    /\ \E flt \in Faults :
          Commit(plot_feature_distribution(World0, df, call.col1, call.name, flt))

DistributionComparison ==
    /\ Ready("plot_distribution_comparison")
    /\ \E flt \in Faults :
          Commit(plot_distribution_comparison(
                     World0, df, call.col1, call.name, call.plot_type, flt))

PostingBehaviorHist ==
    /\ Ready("plot_posting_behavior_hist")
    /\ \E flt \in Faults :
          Commit(plot_posting_behavior_hist(
                     World0, df, call.col1, call.col2, call.name, flt))

PostingBehaviorHeatmap ==
    /\ Ready("plot_posting_behavior_heatmap")
    /\ \E flt \in Faults :
          Commit(plot_posting_behavior_heatmap(World0, df, call.name, flt))

ScoreDevelopment ==
    /\ Ready("plot_score_development")
    /\ \E flt \in Faults :
          Commit(plot_score_development(
                     World0, df, call.col1, call.col2, call.col3, call.name, flt))

PearsonCorrelation ==
    /\ Ready("plot_pearson_correlation")
    /\ \E flt \in Faults :
          Commit(plot_pearson_correlation(World0, df, config, call.name, flt))

EventwiseHeatmap ==
    /\ Ready("plot_eventwise_heatmap")
    /\ \E flt \in Faults :
          Commit(plot_eventwise_heatmap(
                     World0, df, call.col1, call.col2, call.name, flt))

BoxplotWithStats ==
    /\ Ready("plot_boxplot_with_stats")
    /\ \E flt \in Faults :
          Commit(plot_boxplot_with_stats(
                     World0, df, call.col1, call.col2, call.col3, call.name, flt))

EventKeywordDistribution ==
    /\ Ready("plot_event_keyword_distribution")
    /\ \E flt \in Faults :
          Commit(plot_event_keyword_distribution(
                     World0, df, call.col1, call.name, flt))

DualDistribution ==
    /\ Ready("plot_dual_distribution")
    /\ \E flt \in Faults :
          Commit(plot_dual_distribution(
                     World0, df, call.col1, call.col2, call.name, flt))

KeywordScoreHeatmap ==
    /\ Ready("plot_keyword_score_heatmap")
    /\ \E flt \in Faults :
          Commit(plot_keyword_score_heatmap(
                     World0, df, call.col1, call.col2, call.name, flt))

EngagementPerDay ==
    /\ Ready("plot_engagement_per_day")
    /\ \E flt \in Faults :
          Commit(plot_engagement_per_day(
                     World0, df, call.col1, call.col2, call.name, flt))

Next ==
    \/ AverageMetricByTimeAndEvent
    \/ MetricByEventAndType
    \/ FeatureDistribution
    \/ DistributionComparison
    \/ PostingBehaviorHist
    \/ PostingBehaviorHeatmap
    \/ ScoreDevelopment
    \/ PearsonCorrelation
    \/ EventwiseHeatmap
    \/ BoxplotWithStats
    \/ EventKeywordDistribution
    \/ DualDistribution
    \/ KeywordScoreHeatmap
    \/ EngagementPerDay

Spec == Init /\ [][Next]_vars

----------------------------------------------------------------------------
(* The views that aggregate and write tables, alone. *)

AggregatingViews ==
    {"plot_average_metric_by_time_and_event", "plot_metric_by_event_and_type",
     "plot_feature_distribution", "plot_distribution_comparison"}

InitAgg == InitOf(AggregatingViews)

NextAgg ==
    \/ AverageMetricByTimeAndEvent
    \/ MetricByEventAndType
    \/ FeatureDistribution
    \/ DistributionComparison

SpecAgg == InitAgg /\ [][NextAgg]_vars

----------------------------------------------------------------------------
(* The correlation view, alone. *)

InitPearson == InitOf({"plot_pearson_correlation"})

NextPearson == PearsonCorrelation

SpecPearson == InitPearson /\ [][NextPearson]_vars

----------------------------------------------------------------------------
(* A run of generate_all_eda_plots. *)

AllCols ==
    {"event_name", "time_period", "post_type", "comment_score",
     "compound_sentiment", "word_count", "created_utc"}

\* The complete rows of the model: two events, an allow-listed and another
\* post type, and two levels of the scores (the three scores of a row move
\* together).
FullRows ==
    {[event_name |-> <<e>>, time_period |-> <<"Before Event">>, post_type |-> <<t>>,
      comment_score |-> <<v>>, compound_sentiment |-> <<v - 1>>,
      word_count |-> <<v + 1>>, created_utc |-> <<0>>] :
        e \in {"A", "B"}, t \in {"Other", "Meme"}, v \in {1, 2}}

\* A dataset of complete rows with the columns outside C removed.
Remove(rs, C) ==
    [cols |-> C, numeric |-> C \cap NumericCols,
     rows |-> [i \in 1..Len(rs) |-> [c \in C |-> rs[i][c]]]]

AllDatasets ==
    {Remove(rs, C) : rs \in SeqsUpTo(FullRows, MaxRowsAll), C \in SUBSET AllCols}

NoFault == [at |-> 0, kind |-> "none"]

InitAll ==
    /\ call = Call("generate_all_eda_plots", "", "", "", "", "", None)
    /\ df \in AllDatasets
    /\ config \in Configs
    /\ pc = "ready"
    /\ reports = <<>>
    /\ figures = <<>>
    /\ log = <<>>
    /\ nfig = 0
    /\ error = ""

GenerateAllEdaPlots ==
    /\ Ready("generate_all_eda_plots")
    /\ Commit(generate_all_eda_plots(World0, df, config, NoFault))

NextAll == GenerateAllEdaPlots

SpecAll == InitAll /\ [][NextAll]_vars

----------------------------------------------------------------------------
(* Properties.  Called(fn): the call of fn is over.  No failure was         *)
(* injected: the call returned, or raised an exception of its own.          *)

Called(fn) == pc # "ready" /\ call.fn = fn

Over == pc # "ready"

NoInjectedFailure == error \notin {"render", "savefig"}

\* The views that name required columns.
ViewsWithRequiredCols ==
    {"plot_average_metric_by_time_and_event", "plot_metric_by_event_and_type",
     "plot_feature_distribution", "plot_distribution_comparison",
     "plot_posting_behavior_hist", "plot_score_development",
     "plot_eventwise_heatmap", "plot_boxplot_with_stats",
     "plot_event_keyword_distribution", "plot_dual_distribution",
     "plot_keyword_score_heatmap", "plot_engagement_per_day"}

NothingWritten == DOMAIN reports = {} /\ DOMAIN figures = {}

Logged(level) == \E i \in DOMAIN log : log[i].level = level

\* C1: in every view that names required columns, on every dataset (an empty
\* one included), a call with a required column absent returns normally,
\* leaves both directories as they were, and logs at error level.
C1_MissingColumnLogsError ==
    (Over /\ call.fn \in ViewsWithRequiredCols /\ ~(RequiredCols(call) \subseteq df.cols))
        => /\ pc = "returned"
           /\ NothingWritten
           /\ Len(log) = 1
           /\ log[1].level = "error"

\* The rows of the caller's dataset that are defined in every required column.
DefinedRows == SelectSeq(df.rows, LAMBDA r : \A c \in RequiredCols(call) : ~IsNa(r[c]))

\* C2: every view drops the rows with an undefined value in a required
\* column, and when no row remains it logs, returns normally and writes
\* neither an image nor a text file (no failure being injected).
C2_NoDefinedRowWritesNothing ==
    (Over /\ call.fn \in ViewsWithRequiredCols /\ RequiredCols(call) \subseteq df.cols
          /\ DefinedRows = <<>> /\ NoInjectedFailure)
        => /\ pc = "returned"
           /\ NothingWritten
           /\ Len(log) >= 1

\* C3: plot_distribution_comparison with a plot_type other than 'violin' and
\* 'box', on a dataset that passes the column and the non-empty checks, logs
\* an error, returns normally and writes no file, image or text.
C3_InvalidPlotTypeWritesNothing ==
    (Called("plot_distribution_comparison") /\ call.plot_type \notin {"violin", "box"}
          /\ RequiredCols(call) \subseteq df.cols /\ DefinedRows # <<>>)
        => /\ pc = "returned"
           /\ Logged("error")
           /\ NothingWritten

TimeTableName == call.name \o "_by_time_period_and_event.txt"

TimeTable == reports[TimeTableName].table

\* The events of the rows the time-and-event view keeps.
ObservedEvents == {DefinedRows[i]["event_name"][1] : i \in DOMAIN DefinedRows}

\* The filtered rows of one (period, event) pair.
RowsOfPair(k) ==
    SelectSeq(DefinedRows, LAMBDA r : r["time_period"][1] = k[1] /\ r["event_name"][1] = k[2])

\* C4: plot_average_metric_by_time_and_event, on filtered rows with N distinct
\* events, writes a table of exactly 4 * N rows, one per (period, event) with
\* the period among the four fixed ones; a row has defined mean, median and
\* count exactly when a filtered row has its pair, and otherwise every
\* statistic of it is undefined.
C4_TimeTableIsFullCrossProduct ==
    (Called("plot_average_metric_by_time_and_event")
          /\ RequiredCols(call) \subseteq df.cols /\ DefinedRows # <<>>)
        => /\ TimeTableName \in DOMAIN reports
           /\ Len(TimeTable) = 4 * Cardinality(ObservedEvents)
           /\ {TimeTable[i].key : i \in DOMAIN TimeTable}
                = SeqToSet(all_periods) \X ObservedEvents
           /\ \A i \in DOMAIN TimeTable :
                 IF RowsOfPair(TimeTable[i].key) # <<>>
                 THEN /\ ~IsNa(TimeTable[i].stats.mean)
                      /\ ~IsNa(TimeTable[i].stats.median)
                      /\ TimeTable[i].stats.count = <<Len(RowsOfPair(TimeTable[i].key))>>
                 ELSE TimeTable[i].stats = NaNStats

\* Two events with data in two pairs only: 8 rows, 6 of them undefined.
C4_Witness ==
    /\ Called("plot_average_metric_by_time_and_event")
    /\ pc = "returned"
    /\ TimeTableName \in DOMAIN reports
    /\ Len(TimeTable) = 8
    /\ Cardinality({i \in DOMAIN TimeTable : IsNa(TimeTable[i].stats.mean)}) = 6

\* The key set of the aggregation a group-by view makes, and the full
\* cross-product of the keys it is expected to cover.
EngagementKeys == DOMAIN figures[call.name].data

TypeTableName == call.col1 \o "_by_post_type_and_event.txt"

TypeTable == reports[TypeTableName].table

\* The rows the category-and-event view keeps: defined, and of an allowed
\* type when a non-empty allow-list is given.
TypeRows ==
    SelectSeq(DefinedRows, LAMBDA r :
        (call.selected_types.given /\ call.selected_types.list # <<>>)
            => \E i \in DOMAIN call.selected_types.list :
                  call.selected_types.list[i] = r["post_type"][1])

\* C5: the aggregation of every view with a group-by dimension has exactly
\* one entry per element of the full cross-product of the expected keys; the
\* day-of-week view's aggregation has 7 * N entries for N observed events.
C5_AggregationCoversCrossProduct ==
    /\ (Called("plot_average_metric_by_time_and_event") /\ pc = "returned"
           /\ TimeTableName \in DOMAIN reports)
         => {TimeTable[i].key : i \in DOMAIN TimeTable}
               = SeqToSet(all_periods) \X ObservedEvents
    /\ (Called("plot_metric_by_event_and_type") /\ pc = "returned"
           /\ TypeTableName \in DOMAIN reports)
         => {TypeTable[i].key : i \in DOMAIN TypeTable}
               = {TypeRows[i]["post_type"][1] : i \in DOMAIN TypeRows}
                    \X {TypeRows[i]["event_name"][1] : i \in DOMAIN TypeRows}
    /\ (Called("plot_engagement_per_day") /\ pc = "returned"
           /\ call.name \in DOMAIN figures)
         => /\ EngagementKeys = SeqToSet(order) \X ObservedEvents
            /\ Cardinality(EngagementKeys) = 7 * Cardinality(ObservedEvents)

\* The rows of the aggregation tables of the four views that write them, as
\* records with mean, std, count and the two bounds.
StatRows ==
    IF ~Over THEN {}
    ELSE IF call.fn \in {"plot_average_metric_by_time_and_event",
                         "plot_metric_by_event_and_type"}
    THEN UNION {{reports[f].table[i].stats : i \in DOMAIN reports[f].table} :
                  f \in DOMAIN reports}
    ELSE IF call.fn = "plot_distribution_comparison"
    THEN UNION {{reports[f].table[i] : i \in DOMAIN reports[f].table} :
                  f \in DOMAIN reports}
    ELSE IF call.fn = "plot_feature_distribution"
              /\ (call.name \o call.col1 \o "_summary.txt") \in DOMAIN reports
    THEN {[mean |-> r.Mean, std |-> r.Std, count |-> r.Count,
           lower_bound |-> r.LowerBound, upper_bound |-> r.UpperBound] :
            r \in {reports[call.name \o call.col1 \o "_summary.txt"].table[1]}}
    ELSE {}

\* C6 as stated: in every row of every aggregation table, lower_bound equals
\* mean - std and upper_bound equals mean + std as numbers, the rows of one
\* observation (where the mean is defined) included.
C6_BoundsAreMeanPlusMinusStd ==
    \A r \in StatRows :
        (NoInjectedFailure /\ ~IsNa(r.mean)) =>
            /\ ~IsNa(r.std) /\ ~IsNa(r.lower_bound) /\ ~IsNa(r.upper_bound)
            /\ r.lower_bound[1] = r.mean[1] - r.std[1]
            /\ r.upper_bound[1] = r.mean[1] + r.std[1]

\* C6 amended: in every row of every aggregation table, the std is defined
\* exactly when the group holds two observations or more; then lower_bound
\* is mean - std and upper_bound is mean + std; in the rows of one
\* observation (mean defined) and in the rows reindexing fills in, the std
\* and both bounds are undefined.
C6_BoundsWhereStdIsDefined ==
    \A r \in StatRows :
        /\ ~IsNa(r.std) <=> (~IsNa(r.count) /\ r.count[1] >= 2)
        /\ IF ~IsNa(r.std)
           THEN /\ ~IsNa(r.mean) /\ ~IsNa(r.lower_bound) /\ ~IsNa(r.upper_bound)
                /\ r.lower_bound[1] = r.mean[1] - r.std[1]
                /\ r.upper_bound[1] = r.mean[1] + r.std[1]
           ELSE IsNa(r.lower_bound) /\ IsNa(r.upper_bound)

\* A written row of two observations with a positive std and distinct bounds.
C6_Witness ==
    \E r \in StatRows :
        /\ r.count = <<2>> /\ ~IsNa(r.std) /\ r.std[1] > 0
        /\ r.lower_bound[1] < r.mean[1] /\ r.mean[1] < r.upper_bound[1]

\* The defined values of the feature column, in row order.
FeatureValues == ColValues(DropNa(df.rows, {call.col1}), call.col1)

KdeFileName == call.name \o call.col1 \o "_kde_curve.txt"

KdeTable == reports[KdeFileName].table

\* C7: with two non-null observations or more, plot_feature_distribution
\* writes a density curve of exactly 200 points, from min(feature) to
\* max(feature), with increasing x (x is in units of 1/199).
C7_KdeCurveWritten ==
    (Called("plot_feature_distribution") /\ call.col1 \in df.cols
          /\ Len(FeatureValues) >= 2)
        => /\ KdeFileName \in DOMAIN reports
           /\ Len(KdeTable) = 200
           /\ KdeTable[1].x = <<199 * Min(FeatureValues)>>
           /\ KdeTable[200].x = <<199 * Max(FeatureValues)>>
           /\ \A i \in 1..199 : KdeTable[i].x[1] <= KdeTable[i + 1].x[1]

SummaryFileName == call.name \o call.col1 \o "_summary.txt"

HistogramFileName == call.name \o call.col1 \o "_histogram_extended.png"

\* C8: plot_feature_distribution with exactly one non-null observation writes
\* the summary, logs a warning, writes no KDE curve and raises nothing of its
\* own: unless a failure is injected it returns normally and has written the
\* histogram.  With no non-null observation it writes nothing.
C8_OneObservationSkipsKde ==
    (Called("plot_feature_distribution") /\ call.col1 \in df.cols)
        => /\ Len(FeatureValues) = 1 =>
                 /\ SummaryFileName \in DOMAIN reports
                 /\ \E i \in DOMAIN log :
                       log[i] = [level |-> "warning",
                                 msg |-> "Not enough data points to generate KDE curve"]
                 /\ KdeFileName \notin DOMAIN reports
                 /\ NoInjectedFailure =>
                       (pc = "returned" /\ HistogramFileName \in DOMAIN figures)
           /\ Len(FeatureValues) = 0 => (pc = "returned" /\ NothingWritten)

\* One observation: the summary and the histogram, no curve.
C8_Witness ==
    /\ Called("plot_feature_distribution")
    /\ call.col1 \in df.cols
    /\ Len(FeatureValues) = 1
    /\ pc = "returned"
    /\ DOMAIN reports = {SummaryFileName}
    /\ DOMAIN figures = {HistogramFileName}

\* The columns the correlation view may use: configured or built-in names
\* that the dataset holds with a numeric type.
UsableCols ==
    {c \in SeqToSet(config.NUMERICAL_FEATURES) \cup SeqToSet(config.BOOLEAN_FEATURES)
            \cup {"comment_score", "post_score", "post_num_comments", "upvote_ratio",
                  "compound_sentiment", "word_count"} :
        c \in df.cols /\ c \in df.numeric}

OnlyWarned == \A i \in DOMAIN log : log[i].level = "warning"

\* C9 as stated: plot_pearson_correlation uses exactly the usable columns;
\* with fewer than two it logs a warning, writes nothing and returns, and
\* otherwise (no failure being injected) it writes exactly one image, whose
\* matrix is indexed by exactly those columns.
C9_TwoUsableColumnsGiveOneImage ==
    (Called("plot_pearson_correlation") /\ NoInjectedFailure)
        => /\ pc = "returned"
           /\ DOMAIN reports = {}
           /\ IF Cardinality(UsableCols) < 2
              THEN DOMAIN figures = {} /\ Logged("warning")
              ELSE /\ DOMAIN figures = {call.name}
                   /\ figures[call.name].index = UsableCols

\* C9 amended: as stated for a dataset that is not empty; an empty dataset (no
\* rows, or no columns) is skipped with a warning and nothing is written,
\* however many usable columns it has.
C9_NonEmptyTwoUsableColumnsGiveOneImage ==
    (Called("plot_pearson_correlation") /\ NoInjectedFailure)
        => /\ pc = "returned"
           /\ DOMAIN reports = {}
           /\ IF Len(df.rows) = 0 \/ df.cols = {} \/ Cardinality(UsableCols) < 2
              THEN DOMAIN figures = {} /\ Len(log) = 1 /\ OnlyWarned
              ELSE /\ DOMAIN figures = {call.name}
                   /\ figures[call.name].index = UsableCols

\* Two usable columns or more on a dataset with rows, beside a column that is
\* present but not usable: one image, indexed by the usable ones.
C9_Witness ==
    /\ Called("plot_pearson_correlation")
    /\ pc = "returned"
    /\ Len(df.rows) > 0
    /\ Cardinality(UsableCols) >= 2
    /\ UsableCols # df.cols
    /\ DOMAIN figures = {call.name}
    /\ figures[call.name].index = UsableCols

\* The three features of the histograms and of the violin plots, with the
\* prefix generate_all_eda_plots gives each.
FeaturePrefix ==
    [compound_sentiment |-> "sentiment_", comment_score |-> "comment_score_",
     word_count |-> "word_count_"]

\* The two metrics of the averages by time period and by day of week, and the
\* three of the averages by post type, with the names they are saved under.
MetricName == [compound_sentiment |-> "sentiment", comment_score |-> "comment_score",
               word_count |-> "word_count"]

Artifact(file, kind, needs, extra) ==
    [file |-> file, kind |-> kind, needs |-> needs, extra |-> extra]

AllowListed ==
    \E i \in DOMAIN df.rows : \E j \in DOMAIN selected_types :
        "post_type" \in df.cols /\ df.rows[i]["post_type"] = <<selected_types[j]>>

\* Every artifact of a run with the columns it requires, and what it requires
\* beyond them: the density curve two observations, the filtered chart a row of
\* an allow-listed type, the correlation matrix two numeric columns.
Artifacts ==
    UNION {
      {Artifact("dist_" \o FeaturePrefix[f] \o f \o "_summary.txt", "text", {f}, TRUE),
       Artifact("dist_" \o FeaturePrefix[f] \o f \o "_kde_curve.txt", "text", {f},
                Len(df.rows) > 1),
       Artifact("dist_" \o FeaturePrefix[f] \o f \o "_histogram_extended.png", "image",
                {f}, TRUE),
       Artifact("dist_comp_" \o FeaturePrefix[f] \o f \o "_violin_stats.txt", "text",
                {f, "event_name"}, TRUE),
       Artifact("dist_comp_" \o FeaturePrefix[f] \o f \o "_violin_extended.png", "image",
                {f, "event_name"}, TRUE),
       Artifact(f \o "_by_post_type_and_event.txt", "text",
                {f, "post_type", "event_name"}, TRUE),
       Artifact("avg_" \o MetricName[f] \o "_by_post_type.png", "image",
                {f, "post_type", "event_name"}, TRUE)} : f \in DOMAIN FeaturePrefix}
    \cup UNION {
      {Artifact("avg_" \o MetricName[m] \o "_by_time_period_and_event.txt", "text",
                {m, "time_period", "event_name"}, TRUE),
       Artifact("avg_" \o MetricName[m] \o "_by_time_period_and_event_extended.png",
                "image", {m, "time_period", "event_name"}, TRUE),
       Artifact("avg_" \o MetricName[m] \o "_by_day_of_week.png", "image",
                {m, "created_utc", "event_name"}, TRUE)} :
          m \in {"compound_sentiment", "comment_score"}}
    \cup {Artifact("comment_distribution_time_periods_table.txt", "text",
                   {"time_period", "event_name"}, TRUE),
          Artifact("comment_distribution_time_periods.png", "image",
                   {"time_period", "event_name"}, TRUE),
          Artifact("filtered_avg_word_count_by_post_type_and_event.png", "image",
                   {"word_count", "post_type", "event_name"}, AllowListed),
          Artifact("pearson_correlation_matrix.png", "image", {},
                   Cardinality(UsableCols) >= 2)}

\* The artifacts a run on this dataset owes: the dataset has a row, the columns
\* the artifact requires are all there, and so is what it requires beyond them.
Owed(kind) ==
    {a.file : a \in {x \in Artifacts :
        x.kind = kind /\ Len(df.rows) > 0 /\ x.needs \subseteq df.cols /\ x.extra}}

\* A feature of the histograms that is in the dataset with two rows or more,
\* all of one value: the density estimate of such a column fails, whatever
\* columns are missing.
ConstantFeature ==
    /\ Len(df.rows) > 1
    /\ \E f \in DOMAIN FeaturePrefix \cap df.cols :
          \A i, j \in DOMAIN df.rows : df.rows[i][f] = df.rows[j][f]

\* C10: generate_all_eda_plots never fails because a column is missing.  On
\* complete rows with any subset of the seven columns removed, no access to an
\* absent column ever raises; the only exception a run raises is the density
\* estimate's, on a constant feature that is present; and a run that returns
\* has written exactly the artifacts whose required columns are all present
\* (a view with an absent column is skipped, every other one still writes),
\* ending with "All EDA Plots Generated" unless no column is left at all.
C10_MissingColumnsNeverFailTheRun ==
    Called("generate_all_eda_plots")
        => /\ error \in {"", "LinAlgError"}
           /\ (pc = "raised") = ConstantFeature
           /\ pc = "returned"
                => /\ DOMAIN reports = Owed("text")
                   /\ DOMAIN figures = Owed("image")
                   /\ ~Empty(df)
                        => log[Len(log)] =
                             [level |-> "info", msg |-> "All EDA Plots Generated"]

\* A run on two rows with time_period removed: it returns, the time period
\* views are skipped and the post type, day of week and distribution views
\* have written their artifacts.
C10_Witness ==
    /\ Called("generate_all_eda_plots")
    /\ pc = "returned"
    /\ df.cols = AllCols \ {"time_period"}
    /\ Len(df.rows) = 2
    /\ "comment_distribution_time_periods.png" \notin DOMAIN figures
    /\ "avg_sentiment_by_time_period_and_event_extended.png" \notin DOMAIN figures
    /\ {"avg_comment_score_by_post_type.png", "avg_sentiment_by_day_of_week.png",
        "dist_sentiment_compound_sentiment_histogram_extended.png",
        "pearson_correlation_matrix.png"} \subseteq DOMAIN figures
    /\ "dist_word_count_word_count_kde_curve.txt" \in DOMAIN reports

----------------------------------------------------------------------------
(* Calls of plot_engagement_per_day alone. *)

InitDay == InitOf({"plot_engagement_per_day"})

NextDay == EngagementPerDay

SpecDay == InitDay /\ [][NextDay]_vars

\* The day of the week of a timestamp, a number of days since a Monday.
WeekDay(t) ==
    CASE t % 7 = 0 -> "Monday" [] t % 7 = 1 -> "Tuesday" [] t % 7 = 2 -> "Wednesday"
      [] t % 7 = 3 -> "Thursday" [] t % 7 = 4 -> "Friday" [] t % 7 = 5 -> "Saturday"
      [] OTHER -> "Sunday"

\* The defined rows of a (day, event) pair, with the time column in col1 and
\* the engagement column in col2.
RowsOfDayAndEvent(k) ==
    SelectSeq(DefinedRows, LAMBDA r :
        WeekDay(r[call.col1][1]) = k[1] /\ r["event_name"][1] = k[2])

\* C11: the chart of plot_engagement_per_day has the days on its axis in the
\* order Monday to Sunday, whatever the order of the rows and whichever days
\* the data holds, and the value of each (day, event) pair it shows is the
\* mean of the engagement column over the rows of that pair.
C11_DaysInWeekOrderWithMeans ==
    (Called("plot_engagement_per_day") /\ call.name \in DOMAIN figures)
        => LET shown == figures[call.name]
           IN /\ shown.order = <<"Monday", "Tuesday", "Wednesday", "Thursday",
                                  "Friday", "Saturday", "Sunday">>
              /\ DOMAIN shown.data =
                    {<<WeekDay(DefinedRows[i][call.col1][1]),
                       DefinedRows[i]["event_name"][1]>> : i \in DOMAIN DefinedRows}
              /\ \A k \in DOMAIN shown.data :
                    LET v == ColValues(RowsOfDayAndEvent(k), call.col2)
                    IN shown.data[k] = <<(SumSeq(v) * Scale) \div Len(v)>>

\* A Sunday row before a Monday row: the chart is written, Monday first.
C11_Witness ==
    /\ Called("plot_engagement_per_day")
    /\ call.name \in DOMAIN figures
    /\ Len(DefinedRows) = 2
    /\ WeekDay(DefinedRows[1][call.col1][1]) = "Sunday"
    /\ WeekDay(DefinedRows[2][call.col1][1]) = "Monday"
    /\ figures[call.name].order[1] = "Monday"

\* C12: every figure a view opens is released by the time the view ends,
\* however it ends (returned, skipped, or failed in the drawing calls or in
\* the image write): as many figures are open after the call as before it,
\* none.
C12_FiguresReleasedHoweverTheCallEnds ==
    Over => nfig = 0

AllowListCall ==
    /\ Called("plot_metric_by_event_and_type")
    /\ call.selected_types.given
    /\ call.selected_types.list # <<>>
    /\ RequiredCols(call) \subseteq df.cols

\* C14: with a non-empty allow-list the table of plot_metric_by_event_and_type
\* has exactly the allow-listed post types observed in the defined rows,
\* crossed with exactly the events observed in those remaining rows; when no
\* defined row has an allow-listed type, the call returns with nothing written.
C14_AllowListRestrictsTypesAndEvents ==
    AllowListCall
        => IF TypeRows = <<>>
           THEN pc = "returned" /\ NothingWritten /\ Logged("warning")
           ELSE /\ TypeTableName \in DOMAIN reports
                /\ {TypeTable[i].key : i \in DOMAIN TypeTable}
                     = {TypeRows[i]["post_type"][1] : i \in DOMAIN TypeRows}
                          \X {TypeRows[i]["event_name"][1] : i \in DOMAIN TypeRows}
                /\ \A i \in DOMAIN TypeTable :
                      \E j \in DOMAIN call.selected_types.list :
                          TypeTable[i].key[1] = call.selected_types.list[j]

\* Two defined rows, one of an allow-listed type and one, of another event,
\* of a type that is not allow-listed: the table has the first row's type and
\* event only.
C14_Witness ==
    /\ AllowListCall
    /\ Len(DefinedRows) = 2
    /\ Len(TypeRows) = 1
    /\ DefinedRows[1]["event_name"] # DefinedRows[2]["event_name"]
    /\ TypeTableName \in DOMAIN reports
    /\ Len(TypeTable) = 1

----------------------------------------------------------------------------
(* A run of generate_all_eda_plots in which one call may fail. *)

\* The failures of a run: none, or the drawing calls or the image write of
\* one of its sixteen calls.
RunFaults ==
    {NoFault} \cup [at : 1..16, kind : {"render", "savefig"}]

\* Complete rows of one event, with every column, or with those of one
\* section removed.
AbortDatasets ==
    {Remove(rs, C) : rs \in SeqsUpTo({r \in FullRows : r["event_name"] = <<"A">>},
                                     MaxRowsAll),
                     C \in {AllCols, AllCols \ {"time_period"}, AllCols \ {"post_type"}}}

InitAbort ==
    /\ call = Call("generate_all_eda_plots", "", "", "", "", "", None)
    /\ df \in AbortDatasets
    /\ config = [NUMERICAL_FEATURES |-> <<>>, BOOLEAN_FEATURES |-> <<>>]
    /\ pc = "ready"
    /\ reports = <<>>
    /\ figures = <<>>
    /\ log = <<>>
    /\ nfig = 0
    /\ error = ""

GenerateAllEdaPlotsFailing ==
    /\ Ready("generate_all_eda_plots")
    /\ \E flt \in RunFaults : Commit(generate_all_eda_plots(World0, df, config, flt))

NextAbort == GenerateAllEdaPlotsFailing

SpecAbort == InitAbort /\ [][NextAbort]_vars

\* The files of a run in the order the source writes them: call by call, and
\* within a call the text before the image.
RunOrder ==
    <<"dist_sentiment_compound_sentiment_summary.txt",
      "dist_sentiment_compound_sentiment_kde_curve.txt",
      "dist_sentiment_compound_sentiment_histogram_extended.png",
      "dist_comment_score_comment_score_summary.txt",
      "dist_comment_score_comment_score_kde_curve.txt",
      "dist_comment_score_comment_score_histogram_extended.png",
      "dist_word_count_word_count_summary.txt",
      "dist_word_count_word_count_kde_curve.txt",
      "dist_word_count_word_count_histogram_extended.png",
      "dist_comp_sentiment_compound_sentiment_violin_stats.txt",
      "dist_comp_sentiment_compound_sentiment_violin_extended.png",
      "dist_comp_comment_score_comment_score_violin_stats.txt",
      "dist_comp_comment_score_comment_score_violin_extended.png",
      "dist_comp_word_count_word_count_violin_stats.txt",
      "dist_comp_word_count_word_count_violin_extended.png",
      "comment_distribution_time_periods_table.txt",
      "comment_distribution_time_periods.png",
      "avg_sentiment_by_time_period_and_event.txt",
      "avg_sentiment_by_time_period_and_event_extended.png",
      "avg_comment_score_by_time_period_and_event.txt",
      "avg_comment_score_by_time_period_and_event_extended.png",
      "comment_score_by_post_type_and_event.txt",
      "avg_comment_score_by_post_type.png",
      "compound_sentiment_by_post_type_and_event.txt",
      "avg_sentiment_by_post_type.png",
      "word_count_by_post_type_and_event.txt",
      "avg_word_count_by_post_type.png",
      "filtered_avg_word_count_by_post_type_and_event.png",
      "pearson_correlation_matrix.png",
      "avg_comment_score_by_day_of_week.png",
      "avg_sentiment_by_day_of_week.png">>

Written == DOMAIN reports \cup DOMAIN figures

OwedFiles == Owed("text") \cup Owed("image")

\* The headings the run logs, section by section.
SectionHeadings ==
    <<"Generating Exploratory Data Analysis Plots",
      "Generating Feature Distribution Plots",
      "Generating Distribution Comparison Plots",
      "Generating Time Period Analysis Plots",
      "Generating Engagement by Post Type Plots",
      "Generating Pearson Correlation Matrix",
      "Generating Additional Specific Plots",
      "All EDA Plots Generated">>

\* The headings in the log, in the order they were logged.
HeadingsLogged ==
    LET hs == SelectSeq(log, LAMBDA e : e.msg \in SeqToSet(SectionHeadings))
    IN [i \in 1..Len(hs) |-> hs[i].msg]

\* C15: generate_all_eda_plots runs its views in one fixed order, and a view
\* that fails ends the run: the error reaches the caller, nothing that comes
\* later in the order is written, and everything the earlier views owed is
\* on disk.  So the files written are a beginning of the run's order among the
\* files the dataset owes, the headings logged are a beginning of the list of
\* headings, and a run that raised has not come to its last heading.
C15_FailureEndsTheRunInOrder ==
    Called("generate_all_eda_plots")
        => LET written == Written
               owed == OwedFiles
               headings == HeadingsLogged
           IN /\ written \subseteq owed
              /\ \A i, j \in DOMAIN RunOrder :
                    (i < j /\ RunOrder[j] \in written /\ RunOrder[i] \in owed)
                       => RunOrder[i] \in written
              /\ headings = SubSeq(SectionHeadings, 1, Len(headings))
              /\ (pc = "raised") = (error # "")
              /\ pc = "raised"
                   => /\ written # owed
                      /\ Len(headings) < Len(SectionHeadings)
              /\ pc = "returned" => written = owed

\* The image write of the correlation matrix failed: the run raised, the
\* files of the sections before it are on disk and the day of week charts,
\* which the dataset owes, are not.
C15_Witness ==
    /\ Called("generate_all_eda_plots")
    /\ pc = "raised"
    /\ error = "savefig"
    /\ "avg_word_count_by_post_type.png" \in Written
    /\ "dist_sentiment_compound_sentiment_histogram_extended.png" \in Written
    /\ "pearson_correlation_matrix.png" \in OwedFiles \ Written
    /\ "avg_comment_score_by_day_of_week.png" \in OwedFiles \ Written
    /\ Len(HeadingsLogged) = 6

----------------------------------------------------------------------------
(* Calls of the two keyword heatmaps alone. *)

KeywordViews == {"plot_event_keyword_distribution", "plot_keyword_score_heatmap"}

InitKeyword == InitOf(KeywordViews)

NextKeyword == EventKeywordDistribution \/ KeywordScoreHeatmap

SpecKeyword == InitKeyword /\ [][NextKeyword]_vars

\* The heatmap a keyword view has written, and the defined rows of one of its
\* (keyword, event) cells and of one event (the keyword column is col1).
Heatmap == figures[call.name].data

RowsOfCell(c) ==
    SelectSeq(DefinedRows, LAMBDA r :
        r[call.col1][1] = c[1] /\ r["event_name"][1] = c[2])

RowsOfEvent(e) == SelectSeq(DefinedRows, LAMBDA r : r["event_name"][1] = e)

ObservedCells ==
    {DefinedRows[i][call.col1][1] : i \in DOMAIN DefinedRows}
        \X {DefinedRows[i]["event_name"][1] : i \in DOMAIN DefinedRows}

\* The shares of an event added up over the keywords of the heatmap.
SharesOf(e) ==
    SumSeq([i \in 1..Len(Keywords) |->
              IF <<Keywords[i], e>> \in DOMAIN Heatmap
              THEN Heatmap[<<Keywords[i], e>>][1] ELSE 0])

\* C16: in the heatmap of plot_event_keyword_distribution the share of a
\* (keyword, event) cell is 100 * (rows of the cell) / (rows of the event), 0
\* for a cell without rows, and the shares of an event add up to 100 (here in
\* units of 1 / Scale percent, each share rounded down, so that the sum falls
\* short of 100 by less than one unit per keyword); in the heatmap of
\* plot_keyword_score_heatmap a cell without rows holds 0, not an undefined
\* value, and every other cell the mean of the score (col2) over its rows.
C16_SharesPerEventAndZeroFilledCells ==
    /\ (Called("plot_event_keyword_distribution") /\ call.name \in DOMAIN figures)
          => /\ DOMAIN Heatmap = ObservedCells
             /\ \A c \in DOMAIN Heatmap :
                   /\ Heatmap[c] = <<(100 * Scale * Len(RowsOfCell(c)))
                                        \div Len(RowsOfEvent(c[2]))>>
                   /\ RowsOfCell(c) = <<>> => Heatmap[c] = <<0>>
                   /\ SharesOf(c[2]) <= 100 * Scale
                   /\ SharesOf(c[2]) > 100 * Scale - Len(Keywords)
    /\ (Called("plot_keyword_score_heatmap") /\ call.name \in DOMAIN figures)
          => /\ DOMAIN Heatmap = ObservedCells
             /\ \A c \in DOMAIN Heatmap :
                   Heatmap[c] =
                      IF RowsOfCell(c) = <<>> THEN <<0>>
                      ELSE LET v == ColValues(RowsOfCell(c), call.col2)
                           IN <<(SumSeq(v) * Scale) \div Len(v)>>

\* Two keywords, each seen with one event only: the heatmap of the shares has
\* four cells, two of them without rows and at 0, two at 100.
C16_Witness ==
    /\ Called("plot_event_keyword_distribution")
    /\ call.name \in DOMAIN figures
    /\ Cardinality(DOMAIN Heatmap) = 4
    /\ Cardinality({c \in DOMAIN Heatmap : Heatmap[c] = <<0>>}) = 2
    /\ Cardinality({c \in DOMAIN Heatmap : Heatmap[c] = <<100 * Scale>>}) = 2

\* The table the two word_count calls of a run both write, the rows of the
\* dataset of an allow-listed post type, and the keys and the counts a table
\* made from the rows rs has.
WordCountTable == reports["word_count_by_post_type_and_event.txt"].table

AllowListedRows ==
    SelectSeq(df.rows, LAMBDA r :
        \E j \in DOMAIN selected_types : r["post_type"] = <<selected_types[j]>>)

KeysOf(rs) ==
    {rs[i]["post_type"][1] : i \in DOMAIN rs} \X {rs[i]["event_name"][1] : i \in DOMAIN rs}

IsTableOf(table, rs) ==
    /\ {table[i].key : i \in DOMAIN table} = KeysOf(rs)
    /\ \A i \in DOMAIN table :
          LET n == Len(SelectSeq(rs, LAMBDA r :
                         r["post_type"][1] = table[i].key[1]
                            /\ r["event_name"][1] = table[i].key[2]))
          IN table[i].stats.count = IF n = 0 THEN NaN ELSE <<n>>

\* C17: the text table of plot_metric_by_event_and_type is named from the
\* metric alone, so the unfiltered and the filtered word_count call of a run
\* write one file, word_count_by_post_type_and_event.txt: when the run has
\* returned, the file holds the filtered table if a row has an allow-listed
\* post type and the unfiltered table only if the filtered call skipped, and
\* the two images are two files, each with the table of its own call.
C17_FilteredTableOverwritesUnfiltered ==
    (Called("generate_all_eda_plots") /\ pc = "returned" /\ Len(df.rows) > 0
          /\ {"word_count", "post_type", "event_name"} \subseteq df.cols)
        => /\ "word_count_by_post_type_and_event.txt" \in DOMAIN reports
           /\ "avg_word_count_by_post_type.png" \in DOMAIN figures
           /\ IsTableOf(figures["avg_word_count_by_post_type.png"].data, df.rows)
           /\ IF AllowListedRows # <<>>
              THEN /\ IsTableOf(WordCountTable, AllowListedRows)
                   /\ "filtered_avg_word_count_by_post_type_and_event.png"
                         \in DOMAIN figures
                   /\ IsTableOf(
                        figures["filtered_avg_word_count_by_post_type_and_event.png"].data,
                        AllowListedRows)
              ELSE /\ IsTableOf(WordCountTable, df.rows)
                   /\ "filtered_avg_word_count_by_post_type_and_event.png"
                         \notin DOMAIN figures

\* A run on an allow-listed row and one that is not: the text file holds the
\* filtered table, of one row, while the unfiltered image shows four.
C17_Witness ==
    /\ Called("generate_all_eda_plots")
    /\ pc = "returned"
    /\ {"word_count", "post_type", "event_name"} \subseteq df.cols
    /\ Len(df.rows) = 2
    /\ Len(AllowListedRows) = 1
    /\ "word_count_by_post_type_and_event.txt" \in DOMAIN reports
    /\ Len(WordCountTable) = 1
    /\ "avg_word_count_by_post_type.png" \in DOMAIN figures
    /\ Len(figures["avg_word_count_by_post_type.png"].data) = 4

\* The four periods of the fixed domain, and the defined rows with a period
\* among them.
FixedPeriods == {"Before Event", "During Event", "After Event", "Outside Window"}

RowsInFixedPeriods ==
    SelectSeq(DefinedRows, LAMBDA r : r["time_period"][1] \in FixedPeriods)

\* The counts of the table added up, an undefined count adding nothing.
CountSum ==
    SumSeq([i \in DOMAIN TimeTable |->
              IF IsNa(TimeTable[i].stats.count) THEN 0 ELSE TimeTable[i].stats.count[1]])

\* The events of the defined rows all of whose periods are outside the four.
EventsOutsideOnly ==
    {e \in ObservedEvents :
        \A i \in DOMAIN DefinedRows :
            DefinedRows[i]["event_name"][1] = e
                => DefinedRows[i]["time_period"][1] \notin FixedPeriods}

\* C18: in the table of plot_average_metric_by_time_and_event a row whose
\* time_period is not one of the four fixed periods counts in no table row
\* (no key has such a period, and the counts add up to the number of defined
\* rows with a period among the four), and an event seen with such periods
\* only is in the table all the same, as four rows of undefined statistics.
C18_OutOfDomainPeriodsAreDropped ==
    (Called("plot_average_metric_by_time_and_event")
          /\ RequiredCols(call) \subseteq df.cols /\ DefinedRows # <<>>)
        => /\ TimeTableName \in DOMAIN reports
           /\ \A i \in DOMAIN TimeTable : TimeTable[i].key[1] \in FixedPeriods
           /\ CountSum = Len(RowsInFixedPeriods)
           /\ \A e \in EventsOutsideOnly :
                 /\ Cardinality({i \in DOMAIN TimeTable : TimeTable[i].key[2] = e}) = 4
                 /\ \A i \in DOMAIN TimeTable :
                       TimeTable[i].key[2] = e => TimeTable[i].stats = NaNStats

\* One event with a row in a fixed period, another with a row outside them
\* only: eight table rows, the counts adding up to one.
C18_Witness ==
    /\ Called("plot_average_metric_by_time_and_event")
    /\ RequiredCols(call) \subseteq df.cols
    /\ Len(DefinedRows) = 2
    /\ Len(RowsInFixedPeriods) = 1
    /\ Cardinality(EventsOutsideOnly) = 1
    /\ TimeTableName \in DOMAIN reports
    /\ Len(TimeTable) = 8
    /\ CountSum = 1

\* The state before a call, as a world, and what a call of
\* plot_metric_by_event_and_type with the arguments of this call but with
\* selected_types = None leaves when nothing fails.
FreshWorld ==
    [reports |-> <<>>, figures |-> <<>>, log |-> <<>>, nfig |-> 0, df |-> df,
     status |-> "ok", error |-> ""]

WithNone ==
    plot_metric_by_event_and_type(FreshWorld, df, call.col1, call.name, None, "none")

\* C19: plot_metric_by_event_and_type treats selected_types = [] as it treats
\* None: no row is dropped for its type, the table covers every post type and
\* event of the defined rows, and the table written is the one the call with
\* None writes (the image too, when nothing fails); the call is not skipped.
C19_EmptyAllowListIsNoAllowList ==
    (Called("plot_metric_by_event_and_type") /\ call.selected_types = List(<<>>)
          /\ RequiredCols(call) \subseteq df.cols /\ DefinedRows # <<>>)
        => /\ TypeTableName \in DOMAIN reports
           /\ IsTableOf(TypeTable, DefinedRows)
           /\ reports = WithNone.reports
           /\ NoInjectedFailure => pc = "returned" /\ figures = WithNone.figures

\* A call with the empty list on rows of two post types: both are in its
\* table.
C19_Witness ==
    /\ Called("plot_metric_by_event_and_type")
    /\ call.selected_types = List(<<>>)
    /\ RequiredCols(call) \subseteq df.cols
    /\ Len(DefinedRows) = 2
    /\ TypeTableName \in DOMAIN reports
    /\ Cardinality({TypeTable[i].key[1] : i \in DOMAIN TypeTable}) = 2
    /\ pc = "returned"

\* A call of the run that writes text and an image: its text files, its
\* image, and whether it is the count plot written inline in the orchestrator.
TextAndImage(texts, image, inline) ==
    [texts |-> texts, image |-> image, inline |-> inline]

\* The thirteen such calls of a run, in the order of the run.
TextAndImageCalls ==
    <<TextAndImage({"dist_sentiment_compound_sentiment_summary.txt",
                    "dist_sentiment_compound_sentiment_kde_curve.txt"},
                   "dist_sentiment_compound_sentiment_histogram_extended.png", FALSE),
      TextAndImage({"dist_comment_score_comment_score_summary.txt",
                    "dist_comment_score_comment_score_kde_curve.txt"},
                   "dist_comment_score_comment_score_histogram_extended.png", FALSE),
      TextAndImage({"dist_word_count_word_count_summary.txt",
                    "dist_word_count_word_count_kde_curve.txt"},
                   "dist_word_count_word_count_histogram_extended.png", FALSE),
      TextAndImage({"dist_comp_sentiment_compound_sentiment_violin_stats.txt"},
                   "dist_comp_sentiment_compound_sentiment_violin_extended.png", FALSE),
      TextAndImage({"dist_comp_comment_score_comment_score_violin_stats.txt"},
                   "dist_comp_comment_score_comment_score_violin_extended.png", FALSE),
      TextAndImage({"dist_comp_word_count_word_count_violin_stats.txt"},
                   "dist_comp_word_count_word_count_violin_extended.png", FALSE),
      TextAndImage({"comment_distribution_time_periods_table.txt"},
                   "comment_distribution_time_periods.png", TRUE),
      TextAndImage({"avg_sentiment_by_time_period_and_event.txt"},
                   "avg_sentiment_by_time_period_and_event_extended.png", FALSE),
      TextAndImage({"avg_comment_score_by_time_period_and_event.txt"},
                   "avg_comment_score_by_time_period_and_event_extended.png", FALSE),
      TextAndImage({"comment_score_by_post_type_and_event.txt"},
                   "avg_comment_score_by_post_type.png", FALSE),
      TextAndImage({"compound_sentiment_by_post_type_and_event.txt"},
                   "avg_sentiment_by_post_type.png", FALSE),
      TextAndImage({"word_count_by_post_type_and_event.txt"},
                   "avg_word_count_by_post_type.png", FALSE),
      TextAndImage({"word_count_by_post_type_and_event.txt"},
                   "filtered_avg_word_count_by_post_type_and_event.png", FALSE)>>

\* The calls whose image is owed and not written; the first of them in a
\* run that failed in a drawing call or an image write is the call that
\* failed, when that call is one of the thirteen.
WithoutImage(owed, written) ==
    {i \in DOMAIN TextAndImageCalls : TextAndImageCalls[i].image \in owed \ written}

FailedCall(without) == CHOOSE i \in without : \A j \in without : i <= j

InjectedFailure == error \in {"render", "savefig"}

\* Wherever the image of a call is on disk, so are the text files the call
\* owes.
TextWhereImage(owed, written) ==
    \A i \in DOMAIN TextAndImageCalls :
        TextAndImageCalls[i].image \in written
            => (TextAndImageCalls[i].texts \cap owed) \subseteq written

\* C20 as stated: in every call that writes text and an image, the count plot
\* of the orchestrator included, the text is written first: where the image
\* is on disk so is the text, and a failure in the drawing calls or in the
\* image write leaves the text of the failed call on disk without its image.
C20_TextBeforeImage ==
    Called("generate_all_eda_plots")
        => LET owed == OwedFiles
               written == Written
               without == WithoutImage(owed, written)
           IN /\ TextWhereImage(owed, written)
              /\ (InjectedFailure /\ without # {})
                   => (TextAndImageCalls[FailedCall(without)].texts \cap owed)
                         \subseteq written

\* C20 amended: as stated, but for a failure in the drawing calls of the
\* orchestrator's count plot, whose chart is drawn before its table is
\* written: that failure leaves neither the table nor the image.
C20_TextBeforeImageButInlineDrawing ==
    Called("generate_all_eda_plots")
        => LET owed == OwedFiles
               written == Written
               without == WithoutImage(owed, written)
           IN /\ TextWhereImage(owed, written)
              /\ (InjectedFailure /\ without # {})
                   => LET failed == TextAndImageCalls[FailedCall(without)]
                      IN IF failed.inline /\ error = "render"
                         THEN failed.texts \cap written = {}
                         ELSE (failed.texts \cap owed) \subseteq written

\* The drawing calls of the count plot failed: the run raised with the files
\* of the calls before it on disk, and neither the table nor the image of
\* the count plot.
C20_Witness ==
    /\ Called("generate_all_eda_plots")
    /\ error = "render"
    /\ TextAndImageCalls[FailedCall(WithoutImage(OwedFiles, Written))].inline
    /\ "comment_distribution_time_periods_table.txt" \in OwedFiles \ Written
    /\ "dist_comp_word_count_word_count_violin_extended.png" \in Written
    /\ "dist_comp_word_count_word_count_violin_stats.txt" \in Written

====
